---- MODULE Spec2Model ----
(***************************************************************************)
(* Model of selenium/bandcamp_discover.py: DiscoverGatherer pages through  *)
(* the discover carousel, extracts one Track per visible item and appends  *)
(* each page's batch to tracks.csv.                                        *)
(*                                                                         *)
(* The browser and the file system are the environment.  What the browser  *)
(* shows is chosen nondeterministically at each lookup: the pagination     *)
(* indicator, whether the results block becomes visible in time, how many  *)
(* items are displayed, which sub-elements of an item are missing, and     *)
(* whether the next control is found.  A click on the next control moves   *)
(* the carousel one page forward.                                          *)
(***************************************************************************)
EXTENDS Integers, Sequences, FiniteSets

VARIABLES
    file,               \* tracks.csv on disk: [exists, rows]
    file_exists,        \* self.file_exists
    browser,            \* self.browser: "open" or "quit"
    closes,             \* number of close() calls of this process
    pc,                 \* position of the module's top level / get_tracks
    indicator,          \* what the pagination lookup of this page load yields
    total_pages,        \* get_tracks: total_pages
    page_num,           \* get_tracks: loop index of the next iteration
    discovery_item_id,  \* get_tracks: the count(1) iterator's next value
    clicks,             \* next-control clicks done; page clicks + 1 is displayed
    log,                \* warning and error lines printed by this process
    visible_tracks,     \* get_tracks: visible_tracks of the latest iteration
    fault,              \* the uncaught exception that ended get_tracks, if any
    file0,              \* the file as it was when this process started
    writes,             \* number of _append_tracks_to_csv calls of this process
    runs                \* number of process invocations so far

vars == <<file, file_exists, browser, closes, pc, indicator, total_pages,
          page_num, discovery_item_id, clicks, log, visible_tracks, fault,
          file0, writes, runs>>

(***************************************************************************)
(* Bounds of the model and the program's constant.                         *)
(***************************************************************************)
\* Largest number the pagination indicator reads.
MaxPages == 2

\* Items of an extracted page that may have a sub-element missing: the last
\* item and the first MaxFailing - 1 items.
MaxFailing == 2

\* Process invocations against the same file (specification SpecRuns).
MaxRuns == 2

EXPECTED_TRACKS_PER_PAGE == 8

(***************************************************************************)
(* Elements and text.                                                      *)
(***************************************************************************)
\* The sub-elements _collect_track_info looks up, in lookup order.
Fields == {"title", "artist", "genre"}

FieldCode(f) == CASE f = "title" -> 1 [] f = "artist" -> 2 [] f = "genre" -> 3

\* A text is a sequence of characters; character 0 is whitespace.
IsSpace(ch) == ch = 0

\* The discover-item at position i of carousel page c, with the sub-elements
\* of `miss` not resolvable.
Item(c, i, miss) == [pos |-> <<c, i>>, missing |-> miss]

\* element.text of a sub-element: the text names the field and the item and
\* carries surrounding whitespace.
RawText(item, f) == <<0, FieldCode(f), item.pos[1], item.pos[2], 0>>

RECURSIVE StripLeft(_)
StripLeft(s) ==
    IF s # <<>> /\ IsSpace(Head(s)) THEN StripLeft(Tail(s)) ELSE s

RECURSIVE StripRight(_)
StripRight(s) ==
    IF s # <<>> /\ IsSpace(s[Len(s)])
    THEN StripRight(SubSeq(s, 1, Len(s) - 1))
    ELSE s

\* str.strip()
Strip(s) == StripRight(StripLeft(s))

\* Track = namedtuple('Track', ['id', 'page', 'title', 'artist', 'genre'])
TrackFields == <<"id", "page", "title", "artist", "genre">>

Track(id, page, title, artist, genre) ==
    [id |-> id, page |-> page, title |-> title, artist |-> artist, genre |-> genre]

(***************************************************************************)
(* get_total_pages                                                         *)
(***************************************************************************)
\* The outcomes of find_elements(...)[-2].text followed by int(): an integer,
\* or an exception (too few elements, non-numeric text).
Indicators ==
    {[ok |-> FALSE, n |-> 0]} \cup {[ok |-> TRUE, n |-> k] : k \in 0..MaxPages}

\* Variant: a failed lookup is taken for one page.
TotalPages_RaisesToOne(ind) == IF ind.ok THEN ind.n ELSE 1

\* int(...) of the indicator's text, or 0 when anything raises.
TotalPages(ind) == IF ind.ok THEN ind.n ELSE 0

(***************************************************************************)
(* _collect_track_info                                                     *)
(***************************************************************************)
\* Variant: the id is drawn before the lookups, so a failed item consumes it.
IdAfterFailure_Consumed(id) == id + 1

\* next(discovery_item_id) is evaluated after the three lookups: an item whose
\* lookup raises leaves the iterator where it was.
IdAfterFailure(id) == id

ErrorLine(page) == [kind |-> "item", count |-> 0, page |-> page]

\* Variant: the try encloses the loop, so the first failing item ends the page.
RECURSIVE CollectTrackInfo_AbortsPage(_, _, _)
CollectTrackInfo_AbortsPage(items, id, page) ==
    IF items = <<>>
    THEN [page_tracks |-> <<>>, id |-> id, errors |-> <<>>]
    ELSE LET item == Head(items) IN
         IF item.missing = {}
         THEN LET rest == CollectTrackInfo_AbortsPage(Tail(items), id + 1, page) IN
              [page_tracks |-> <<Track(id, page,
                                       Strip(RawText(item, "title")),
                                       Strip(RawText(item, "artist")),
                                       Strip(RawText(item, "genre")))>>
                               \o rest.page_tracks,
               id |-> rest.id,
               errors |-> rest.errors]
         ELSE [page_tracks |-> <<>>, id |-> id, errors |-> <<ErrorLine(page)>>]

\* The tracks of the well-formed items in input order, the iterator's value
\* afterwards, and one error line per failing item.
RECURSIVE CollectTrackInfo(_, _, _)
CollectTrackInfo(items, id, page) ==
    IF items = <<>>
    THEN [page_tracks |-> <<>>, id |-> id, errors |-> <<>>]
    ELSE LET item == Head(items) IN
         IF item.missing = {}
         THEN LET rest == CollectTrackInfo(Tail(items), id + 1, page) IN
              [page_tracks |-> <<Track(id, page,
                                       Strip(RawText(item, "title")),
                                       Strip(RawText(item, "artist")),
                                       Strip(RawText(item, "genre")))>>
                               \o rest.page_tracks,
               id |-> rest.id,
               errors |-> rest.errors]
         ELSE LET rest == CollectTrackInfo(Tail(items), IdAfterFailure(id), page) IN
              [page_tracks |-> rest.page_tracks,
               id |-> rest.id,
               errors |-> <<ErrorLine(page)>> \o rest.errors]

(***************************************************************************)
(* _append_tracks_to_csv                                                   *)
(***************************************************************************)
NoFile == [exists |-> FALSE, rows |-> <<>>]

EmptyFile == [exists |-> TRUE, rows |-> <<>>]

HeaderRow == [kind |-> "header", cells |-> TrackFields]

DataRow(t) == [kind |-> "data", cells |-> <<t.id, t.page, t.title, t.artist, t.genre>>]

RECURSIVE DataRows(_)
DataRows(data) ==
    IF data = <<>> THEN <<>> ELSE <<DataRow(Head(data))>> \o DataRows(Tail(data))

\* Variant: self.file_exists is not set after the header is written.
AppendTracksToCsv_FlagNotSet(f, fe, data) ==
    [file |-> [exists |-> TRUE,
               rows |-> f.rows \o (IF ~fe THEN <<HeaderRow>> ELSE <<>>) \o DataRows(data)],
     file_exists |-> fe]

\* open(..., 'a') creates the file when it is absent; the header row is
\* written when self.file_exists is false, which is then set.
AppendTracksToCsv(f, fe, data) ==
    [file |-> [exists |-> TRUE,
               rows |-> f.rows \o (IF ~fe THEN <<HeaderRow>> ELSE <<>>) \o DataRows(data)],
     file_exists |-> TRUE]

(***************************************************************************)
(* What one iteration of get_tracks finds displayed.                       *)
(***************************************************************************)
VisibleCounts ==
    {EXPECTED_TRACKS_PER_PAGE - 1, EXPECTED_TRACKS_PER_PAGE, EXPECTED_TRACKS_PER_PAGE + 1}

FailCandidates(n, fp) == {i \in 1..n : i <= fp - 1 \/ (fp >= 1 /\ i = n)}

\* The displayed items of carousel page c: n items, those at the positions F
\* with sub-element f missing.
VisibleTracks(c, n, F, f) ==
    [i \in 1..n |-> Item(c, i, IF i \in F THEN {f} ELSE {})]

\* Variant: the loop index itself is used as the page number.
PageLabel_ZeroBased(p) == p

\* page_num + 1
PageLabel(p) == p + 1

\* The loop position after an iteration that ran to its end or hit `continue`.
PcAfterIteration(p, total) == IF p + 1 < total THEN "loop" ELSE "returned"

ShapeLine(n, page) == [kind |-> "shape", count |-> n, page |-> page]

(***************************************************************************)
(* Initial state: __init__ has run against a file that is absent, present  *)
(* and empty, or left by an earlier run of one full page.                  *)
(***************************************************************************)
PriorStore ==
    AppendTracksToCsv(NoFile, FALSE,
        CollectTrackInfo(VisibleTracks(1, EXPECTED_TRACKS_PER_PAGE, {}, "title"), 1, 1).page_tracks).file

\* An empty file exists when it was created outside the program, or when a
\* run was killed between open(..., 'a') and its first flushed row.
InitialFiles == {NoFile, EmptyFile, PriorStore}

\* __init__: the browser is launched and the site loaded (the pagination
\* indicator it will show is `ind`), and file_exists records whether
\* CSV_FILE_PATH exists.
Init ==
    \E f \in InitialFiles, ind \in Indicators :
        /\ file = f
        /\ runs = 1
        /\ file_exists = f.exists
        /\ browser = "open"
        /\ closes = 0
        /\ pc = "constructed"
        /\ indicator = ind
        /\ total_pages = 0
        /\ page_num = 0
        /\ discovery_item_id = 1
        /\ clicks = 0
        /\ log = <<>>
        /\ visible_tracks = <<>>
        /\ fault = "none"
        /\ file0 = f
        /\ writes = 0

(***************************************************************************)
(* get_tracks                                                              *)
(***************************************************************************)
GetTotalPages ==
    /\ pc = "constructed"
    /\ total_pages' = TotalPages(indicator)
    /\ log' = IF indicator.ok THEN log
              ELSE Append(log, [kind |-> "pages", count |-> 0, page |-> 0])
    /\ pc' = IF total_pages' = 0 THEN "returned" ELSE "loop"
    /\ UNCHANGED <<file, file_exists, browser, closes, indicator, page_num,
                   discovery_item_id, clicks, visible_tracks, fault, file0,
                   writes, runs>>

\* Variant: the timeout is caught and the loop goes on to its next iteration.
WaitTimeout_Absorbed ==
    /\ pc = "loop"
    /\ fault' = "timeout"
    /\ page_num' = page_num + 1
    /\ pc' = PcAfterIteration(page_num, total_pages)
    /\ UNCHANGED <<file, file_exists, browser, closes, indicator, total_pages,
                   discovery_item_id, clicks, log, visible_tracks, file0,
                   writes, runs>>

\* self.wait.until(...) raises TimeoutException; nothing catches it.
WaitTimeout ==
    /\ pc = "loop"
    /\ fault' = "timeout"
    /\ pc' = "fatal"
    /\ UNCHANGED <<file, file_exists, browser, closes, indicator, total_pages,
                   page_num, discovery_item_id, clicks, log, visible_tracks,
                   file0, writes, runs>>

\* Variant: a mismatching page still reaches the writer, with an empty batch.
ShapeMismatch_WritesBatch ==
    /\ pc = "loop"
    /\ \E n \in VisibleCounts \ {EXPECTED_TRACKS_PER_PAGE} :
          LET w == AppendTracksToCsv(file, file_exists, <<>>) IN
          /\ visible_tracks' = VisibleTracks(clicks + 1, n, {}, "title")
          /\ log' = Append(log, ShapeLine(n, PageLabel(page_num)))
          /\ file' = w.file
          /\ file_exists' = w.file_exists
    /\ page_num' = page_num + 1
    /\ pc' = PcAfterIteration(page_num, total_pages)
    /\ UNCHANGED <<browser, closes, indicator, total_pages,
                   discovery_item_id, clicks, fault, file0, writes, runs>>

\* len(visible_tracks) != EXPECTED_TRACKS_PER_PAGE: print and `continue`,
\* which also skips the lookup and click of the next control.  No
\* sub-element of the displayed items is looked up in such an iteration, so
\* the items are taken complete.
ShapeMismatch ==
    /\ pc = "loop"
    /\ \E n \in VisibleCounts \ {EXPECTED_TRACKS_PER_PAGE} :
          /\ visible_tracks' = VisibleTracks(clicks + 1, n, {}, "title")
          /\ log' = Append(log, ShapeLine(n, PageLabel(page_num)))
    /\ page_num' = page_num + 1
    /\ pc' = PcAfterIteration(page_num, total_pages)
    /\ UNCHANGED <<file, file_exists, browser, closes, indicator, total_pages,
                   discovery_item_id, clicks, fault, file0, writes, runs>>

\* Lines 84-85 of an iteration that passed the shape check.
CollectAndAppend(fp) ==
    \E F \in SUBSET FailCandidates(EXPECTED_TRACKS_PER_PAGE, fp), f \in Fields :
       LET vt == VisibleTracks(clicks + 1, EXPECTED_TRACKS_PER_PAGE, F, f)
           r  == CollectTrackInfo(vt, discovery_item_id, PageLabel(page_num))
           w  == AppendTracksToCsv(file, file_exists, r.page_tracks)
       IN  /\ visible_tracks' = vt
           /\ discovery_item_id' = r.id
           /\ log' = log \o r.errors
           /\ file' = w.file
           /\ file_exists' = w.file_exists
           /\ writes' = writes + 1

\* Variant: the next control is not clicked after the write.
ExtractPage_NoClick(fp) ==
    /\ pc = "loop"
    /\ CollectAndAppend(fp)
    /\ page_num' = page_num + 1
    /\ pc' = PcAfterIteration(page_num, total_pages)
    /\ UNCHANGED <<browser, closes, indicator, total_pages, clicks, fault, file0, runs>>

\* An iteration that extracts, writes and clicks the next control.
ExtractPage(fp) ==
    /\ pc = "loop"
    /\ CollectAndAppend(fp)
    /\ clicks' = clicks + 1
    /\ page_num' = page_num + 1
    /\ pc' = PcAfterIteration(page_num, total_pages)
    /\ UNCHANGED <<browser, closes, indicator, total_pages, fault, file0, runs>>

\* An iteration that extracts and writes, and whose find_element of the next
\* control (or its click) raises; nothing catches it.
ExtractNextMissing(fp) ==
    /\ pc = "loop"
    /\ CollectAndAppend(fp)
    /\ fault' = "nonext"
    /\ pc' = "fatal"
    /\ UNCHANGED <<browser, closes, indicator, total_pages, page_num, clicks,
                   file0, runs>>

(***************************************************************************)
(* close, and the module's top level                                       *)
(***************************************************************************)
Close ==
    /\ pc = "returned"
    /\ browser' = "quit"
    /\ closes' = closes + 1
    /\ pc' = "closed"
    /\ UNCHANGED <<file, file_exists, indicator, total_pages, page_num,
                   discovery_item_id, clicks, log, visible_tracks, fault,
                   file0, writes, runs>>

\* The process has ended (normally or by the uncaught exception) and the
\* script is invoked again: __init__ runs against the file as it now is.
Restart ==
    /\ pc \in {"closed", "fatal"}
    /\ runs < MaxRuns
    /\ runs' = runs + 1
    /\ file' = file
    /\ file_exists' = file.exists
    /\ browser' = "open"
    /\ closes' = 0
    /\ pc' = "constructed"
    /\ indicator' \in Indicators
    /\ total_pages' = 0
    /\ page_num' = 0
    /\ discovery_item_id' = 1
    /\ clicks' = 0
    /\ log' = <<>>
    /\ visible_tracks' = <<>>
    /\ fault' = "none"
    /\ file0' = file
    /\ writes' = 0

Next ==
    \/ GetTotalPages
    \/ WaitTimeout
    \/ ShapeMismatch
    \/ ExtractPage(MaxFailing)
    \/ ExtractNextMissing(MaxFailing)
    \/ Close

Spec == Init /\ [][Next]_vars

\* Repeated invocations against the same file, every displayed item well formed.
NextRuns ==
    \/ GetTotalPages
    \/ WaitTimeout
    \/ ShapeMismatch
    \/ ExtractPage(0)
    \/ ExtractNextMissing(0)
    \/ Close
    \/ Restart

SpecRuns == Init /\ [][NextRuns]_vars

(***************************************************************************)
(* Derived views of the state used by the properties.                      *)
(***************************************************************************)
IsData(row) == row.kind = "data"

IsHeader(row) == row.kind = "header"

\* The rows this process has appended, and the data rows among them.
RunRows == SubSeq(file.rows, Len(file0.rows) + 1, Len(file.rows))

RunData == SelectSeq(RunRows, IsData)

HeaderCount(rows) == Len(SelectSeq(rows, IsHeader))

HasLine(kind) == \E k \in 1..Len(log) : log[k].kind = kind

RunOver == pc \in {"closed", "fatal"}

WellFormed(item) == item.missing = {}

\* The carousel page a stripped text was read from.
SourcePage(text) == text[2]

(***************************************************************************)
(* Properties.                                                             *)
(***************************************************************************)

\* C1: the ids of the data rows this run has appended, in file order, are
\* exactly 1, 2, ..., k, and the id iterator stands at k + 1: ids are
\* consumed by emitted records only.
C1_SequenceIds ==
    /\ \A k \in 1..Len(RunData) : RunData[k].cells[1] = k
    /\ discovery_item_id = Len(RunData) + 1

\* A finished run with a skipped page, a failed item and written rows.
C1_Witness ==
    /\ pc = "closed"
    /\ HasLine("shape")
    /\ HasLine("item")
    /\ Len(RunData) >= EXPECTED_TRACKS_PER_PAGE - 1

\* C2 (as claimed): an iteration that finds a visible-item count other than
\* 8 still goes on to click the next control, so that the carousel has
\* advanced when a following iteration extracts.
C2_SkipStillClicks ==
    [][(pc = "loop" /\ page_num + 1 < total_pages
                    /\ Len(log') = Len(log) + 1 /\ log'[Len(log')].kind = "shape")
         => clicks' = clicks + 1]_vars

\* C3 (as claimed): at the end of a run the file holds a header row if and
\* only if the file was empty or absent when the run started.
C3_HeaderIffEmptyAtStart ==
    pc = "closed" =>
        (HeaderCount(file.rows) >= 1 <=> (~file0.exists \/ file0.rows = <<>>))

\* C3 (amended): a run writes a header row exactly when the file did not
\* exist at its start and the run performs at least one append; over any
\* sequence of runs the file holds at most one header row, as its first row.
C3_HeaderOnce ==
    /\ HeaderCount(RunRows) = (IF ~file0.exists /\ writes >= 1 THEN 1 ELSE 0)
    /\ HeaderCount(file.rows) <= 1
    /\ HeaderCount(file.rows) = 1 => IsHeader(file.rows[1])

\* A second run that has appended data rows to a file that already held the
\* header.
C3_Witness ==
    /\ runs = 2
    /\ pc = "closed"
    /\ HeaderCount(file0.rows) = 1
    /\ Len(RunData) >= EXPECTED_TRACKS_PER_PAGE

\* C4: an iteration that finds a visible-item count other than 8 leaves the
\* file, the file-exists flag and the id iterator as they were.
C4_SkipFrame ==
    [][(pc = "loop" /\ Len(log') = Len(log) + 1 /\ log'[Len(log')].kind = "shape")
         => /\ file' = file
            /\ file_exists' = file_exists
            /\ discovery_item_id' = discovery_item_id]_vars

\* A page skipped before the first write, followed by a written page: the
\* first row written after the skip carries id 1.
C4_Witness ==
    /\ Len(log) >= 1
    /\ log[1].kind = "shape"
    /\ log[1].page = 1
    /\ writes = 1
    /\ Len(RunData) >= 1
    /\ RunData[1].cells[1] = 1

\* C5: an iteration that passes the shape check appends exactly the
\* well-formed items of the page, in input order, with consecutive ids from
\* the iterator's value, complete in all five fields; an item with a missing
\* sub-element yields no row and no id; the batch is written and the
\* iteration goes on to the next control.
C5_ItemFailure ==
    [][(pc = "loop" /\ Len(visible_tracks') = EXPECTED_TRACKS_PER_PAGE
                    /\ (fault' = "none" \/ fault' = "nonext"))
         => LET good == SelectSeq(visible_tracks', WellFormed)
                new  == SelectSeq(SubSeq(file'.rows, Len(file.rows) + 1, Len(file'.rows)),
                                  IsData)
            IN  /\ writes' = writes + 1
                /\ file'.exists
                /\ Len(new) = Len(good)
                /\ \A k \in 1..Len(good) :
                      new[k].cells = <<discovery_item_id + k - 1,
                                       page_num + 1,
                                       <<1, good[k].pos[1], good[k].pos[2]>>,
                                       <<2, good[k].pos[1], good[k].pos[2]>>,
                                       <<3, good[k].pos[1], good[k].pos[2]>>>>
                /\ discovery_item_id' = discovery_item_id + Len(good)
                /\ Len(log') = Len(log) + (EXPECTED_TRACKS_PER_PAGE - Len(good))
                /\ (fault' = "none" => clicks' = clicks + 1)]_vars

\* A written page whose first item failed and whose later items were
\* extracted, with the loop going on.
C5_Witness ==
    /\ pc = "loop"
    /\ writes = 1
    /\ Len(visible_tracks) = EXPECTED_TRACKS_PER_PAGE
    /\ ~WellFormed(visible_tracks[1])
    /\ Len(RunData) = EXPECTED_TRACKS_PER_PAGE - 1
    /\ RunData[1].cells[3] = <<1, 1, 2>>

\* C6: when the pagination lookup fails or reads 0, the loop is never
\* entered, the file is as it was when the run started, no next control is
\* clicked, and the browser is closed exactly once.
C6_ZeroPages ==
    (pc # "constructed" /\ (~indicator.ok \/ indicator.n = 0))
        => /\ pc \in {"returned", "closed"}
           /\ total_pages = 0
           /\ page_num = 0
           /\ visible_tracks = <<>>
           /\ file = file0
           /\ file_exists = file0.exists
           /\ writes = 0
           /\ clicks = 0
           /\ discovery_item_id = 1
           /\ (pc = "returned" => browser = "open" /\ closes = 0 /\ ENABLED Close)
           /\ (pc = "closed" => browser = "quit" /\ closes = 1)

\* The lookup failed, the browser was closed and no file was created.
C6_Witness ==
    /\ pc = "closed"
    /\ ~indicator.ok
    /\ ~file.exists
    /\ closes = 1

\* C7: from an absent file, a run over N >= 1 pages that each show 8
\* well-formed items (nothing is logged) and that completes normally leaves
\* the header row followed by 8 * N data rows, the k-th with id k and page
\* ceil(k / 8).
C7_FullRun ==
    (pc \in {"returned", "closed"} /\ ~file0.exists /\ total_pages >= 1 /\ log = <<>>)
        => /\ file.exists
           /\ Len(file.rows) = 1 + EXPECTED_TRACKS_PER_PAGE * total_pages
           /\ file.rows[1] = HeaderRow
           /\ \A k \in 1..(EXPECTED_TRACKS_PER_PAGE * total_pages) :
                 /\ IsData(file.rows[k + 1])
                 /\ file.rows[k + 1].cells[1] = k
                 /\ file.rows[k + 1].cells[2] = ((k - 1) \div EXPECTED_TRACKS_PER_PAGE) + 1

\* The two-page scenario: 1 header row and 16 data rows.
C7_Witness ==
    /\ pc = "closed"
    /\ ~file0.exists
    /\ total_pages = 2
    /\ log = <<>>
    /\ Len(file.rows) = 1 + 2 * EXPECTED_TRACKS_PER_PAGE

\* C8 (as claimed): the page number of every row this run has written is the
\* position of the carousel page that was displayed when its item was
\* extracted.
C8_PageIsDisplayedPage ==
    \A k \in 1..Len(RunData) : RunData[k].cells[2] = SourcePage(RunData[k].cells[3])

\* C9: no item is appended twice within a run, and while the loop runs no
\* row of this run comes from the carousel page now displayed: a page that
\* has been written is not shown to an extraction again.
C9_NoReplay ==
    /\ \A j, k \in 1..Len(RunData) :
          j # k => RunData[j].cells[3] # RunData[k].cells[3]
    /\ pc = "loop" =>
          \A k \in 1..Len(RunData) : SourcePage(RunData[k].cells[3]) # clicks + 1

\* Two pages written in one run, one after the other.
C9_Witness ==
    /\ writes = 2
    /\ clicks = 2
    /\ Len(RunData) = 2 * EXPECTED_TRACKS_PER_PAGE

\* C10: a visibility timeout or a missing next control stops the run where
\* it is: the timeout leaves the file as it was, the missing next control
\* leaves it with the batch just written, the browser stays open and close
\* is never called, and nothing changes afterwards.
C10_FatalStops ==
    [][/\ (fault = "none" /\ fault' = "timeout")
             => (file' = file /\ discovery_item_id' = discovery_item_id
                              /\ writes' = writes)
       /\ (fault = "none" /\ fault' = "nonext")
             => (writes' = writes + 1 /\ clicks' = clicks)
       /\ fault' # "none"
             => (pc' = "fatal" /\ browser' = "open" /\ closes' = 0)
       /\ fault # "none" => UNCHANGED vars]_vars

\* The next control is missing on the last page, after both pages were
\* written.
C10_Witness ==
    /\ pc = "fatal"
    /\ fault = "nonext"
    /\ total_pages = 2
    /\ page_num = 1
    /\ writes = 2
    /\ browser = "open"

====
